---- MODULE Spec2Model ----
(***************************************************************************)
(* A model of fmgr.py: the directory browser (FileExplorer), the selection *)
(* (FileSelector), the bulk actions (FileManager over a FileSystem and a   *)
(* UserInterface) and the menu loop (main_menu).                           *)
(*                                                                         *)
(* A path is the sequence of its components; the filesystem root is <<>>.  *)
(* The disk is the set of entries that exist, each a record [p, k] with k  *)
(* "f" (regular file) or "d" (directory).  A line of input is a sequence   *)
(* of one-character strings.                                               *)
(***************************************************************************)
EXTENDS Integers, Sequences, FiniteSets, TLC

VARIABLES
    current_path,                \* FileExplorer.current_path
    current_directory_contents,  \* FileExplorer.current_directory_contents
    selected_files,              \* FileSelector.selected_files
    disk,                        \* the filesystem the os / shutil calls act on
    fs,                          \* FileManager.fs, the gateway it was built with
    ui,                          \* FileManager.ui, the reporter it was built with
    running,                     \* the menu loop of main_menu has not left
    last,                        \* what the last menu iteration did (history)
    listed_path,                 \* history: the directory os.listdir last listed
    selected_from                \* history: the directory whose listing the selected
                                 \* names were taken from (Root while none is selected)

vars == <<current_path, current_directory_contents, selected_files, disk, fs, ui,
          running, last, listed_path, selected_from>>

-----------------------------------------------------------------------------
(* Bounds of the model *)

\* the most comma-separated pieces in a line typed at a prompt
MaxTokens == 2

-----------------------------------------------------------------------------
(* Paths: os.path.join, os.path.dirname, os.path.basename *)

Root == <<>>

Join(path, name) == Append(path, name)

Dirname(path) == IF path = Root THEN Root ELSE SubSeq(path, 1, Len(path) - 1)

Basename(path) == path[Len(path)]

IsPrefix(p, q) == Len(p) <= Len(q) /\ SubSeq(q, 1, Len(p)) = p

\* the home directory the session starts in
Home == <<"h", "u">>

\* directories whose listing the operating system denies (search-only)
Denied == {<<"h">>}

\* the order in which a listing returns the names it holds
NameOrder == <<"a", "h", "sub", "u">>

\* the destination of an empty line: the empty path string
EmptyPath == <<"">>

InitialDisk ==
    { [p |-> <<"h">>, k |-> "d"],
      [p |-> <<"h", "u">>, k |-> "d"],
      [p |-> <<"h", "u", "a">>, k |-> "f"],
      [p |-> <<"h", "u", "sub">>, k |-> "d"] }

\* the disk of a session whose home directory, the value of expanduser('~'), is
\* not there
HomelessDisk == { [p |-> <<"h">>, k |-> "d"] }

\* the disks a session can start on
InitialDisks == { InitialDisk, HomelessDisk }

IsDir(d, p) == p = Root \/ [p |-> p, k |-> "d"] \in d

IsFile(d, p) == [p |-> p, k |-> "f"] \in d

Exists(d, p) == IsDir(d, p) \/ IsFile(d, p)

\* os.listdir(p): the names of p's entries, or an error
ListDir(d, p) ==
    IF IsDir(d, p) /\ p \notin Denied
    THEN [ok |-> TRUE,
          names |-> SelectSeq(NameOrder, LAMBDA n : Exists(d, Join(p, n)))]
    ELSE [ok |-> FALSE, names |-> <<>>]

\* the disk without p and everything below it
RemoveTree(d, p) == { e \in d : ~IsPrefix(p, e.p) }

-----------------------------------------------------------------------------
(* Input: str.split(','), str.strip(), int() *)

\* the pieces a user types between commas: indices in and out of range of a
\* listing, a negative one, one with blanks around it, nothing, and a word
Tokens == { <<"0">>, <<"1">>, <<"-", "1">>, <<" ", "1", " ">>, <<>>, <<"x">> }

RECURSIVE JoinTokens(_)
JoinTokens(toks) ==
    IF toks = <<>> THEN <<>>
    ELSE IF Len(toks) = 1 THEN Head(toks)
    ELSE Head(toks) \o <<",">> \o JoinTokens(Tail(toks))

\* the lines a user can type
Inputs == { JoinTokens(toks) : toks \in UNION { [1..n -> Tokens] : n \in 0..MaxTokens } }

DecimalDigits == {"0", "1", "2", "3", "4", "5", "6", "7", "8", "9"}

DigitValue(c) ==
    CASE c = "0" -> 0 [] c = "1" -> 1 [] c = "2" -> 2 [] c = "3" -> 3
      [] c = "4" -> 4 [] c = "5" -> 5 [] c = "6" -> 6 [] c = "7" -> 7
      [] c = "8" -> 8 [] c = "9" -> 9

RECURSIVE Split(_)
Split(s) ==
    IF s = <<>> THEN << <<>> >>
    ELSE LET rest == Split(Tail(s))
         IN  IF Head(s) = ","
             THEN << <<>> >> \o rest
             ELSE << <<Head(s)>> \o Head(rest) >> \o Tail(rest)

RECURSIVE LStrip(_)
LStrip(s) == IF s # <<>> /\ Head(s) = " " THEN LStrip(Tail(s)) ELSE s

RECURSIVE RStrip(_)
RStrip(s) ==
    IF s # <<>> /\ s[Len(s)] = " " THEN RStrip(SubSeq(s, 1, Len(s) - 1)) ELSE s

Strip(s) == RStrip(LStrip(s))

RECURSIVE DecimalValue(_)
DecimalValue(ds) ==
    IF ds = <<>> THEN 0
    ELSE 10 * DecimalValue(SubSeq(ds, 1, Len(ds) - 1)) + DigitValue(ds[Len(ds)])

\* int(s): <<n>> when s is an integer literal, <<>> when int raises ValueError
ParseInt(s) ==
    LET t      == Strip(s)
        signed == t # <<>> /\ Head(t) \in {"-", "+"}
        digits == IF signed THEN Tail(t) ELSE t
    IN  IF digits = <<>> \/ \E i \in 1..Len(digits) : digits[i] \notin DecimalDigits
        THEN <<>>
        ELSE IF signed /\ Head(t) = "-"
             THEN << 0 - DecimalValue(digits) >>
             ELSE << DecimalValue(digits) >>

\* [int(i.strip()) for i in indices.split(',')]: the values of the tokens in
\* order, up to and including the first one int() rejects, where the
\* comprehension ends with ValueError
RECURSIVE ParseTokens(_)
ParseTokens(toks) ==
    IF toks = <<>> THEN <<>>
    ELSE LET v == ParseInt(Strip(Head(toks)))
         IN  IF v = <<>> THEN << v >> ELSE << v >> \o ParseTokens(Tail(toks))

ParseIndices(s) == ParseTokens(Split(s))

\* what the lines a user can type parse to
ParsedIndexLists == { ParseIndices(s) : s \in Inputs }

ParsedInts == { ParseInt(s) : s \in Inputs }

-----------------------------------------------------------------------------
(* What one iteration of the menu loop did.  arg: the parsed input;          *)
(* consumed: the selection get_and_reset returned; handed: the paths passed  *)
(* to the gateway, in order; raised_at: the position of the item whose       *)
(* gateway call raised (0: none); ret: <<v>> when the operation returned v,  *)
(* <<>> when it returned nothing or raised; report: the message printed for  *)
(* a failure ("" when none).                                                 *)

Step(op, arg, consumed, handed, raised_at, ret, report) ==
    [op |-> op, arg |-> arg, consumed |-> consumed, handed |-> handed,
     raised_at |-> raised_at, ret |-> ret, report |-> report]

PlainStep(op, report) == Step(op, <<>>, <<>>, <<>>, 0, <<>>, report)

-----------------------------------------------------------------------------
(* FileExplorer *)

\* _set_current_path: the path is assigned first, then the listing is taken
SetCurrentPath(d, path, contents) ==
    LET l == ListDir(d, path)
    IN  [current_path |-> path,
         contents     |-> IF l.ok THEN l.names ELSE contents,
         raised       |-> ~l.ok]

\* current_directory_contents[index], with Python's indexing: <<name>>, or <<>>
\* when the index raises IndexError
ListItem(contents, index) ==
    LET n == Len(contents)
    IN  IF 0 <= index /\ index < n THEN << contents[index + 1] >>
        ELSE IF 0 - n <= index /\ index < 0 THEN << contents[n + index + 1] >>
        ELSE <<>>

\* navigate(index) without the os.path.isdir test: every entry is entered
NavigateOpeningFiles(d, path, contents, index) ==
    LET item == ListItem(contents, index)
    IN  IF item = <<>>
        THEN [current_path |-> path, contents |-> contents, listing |-> FALSE,
              report |-> "Navigation error: IndexError"]
        ELSE LET s == SetCurrentPath(d, Join(path, item[1]), contents)
             IN  [current_path |-> s.current_path, contents |-> s.contents,
                  listing |-> ~s.raised,
                  report |-> IF s.raised THEN "Navigation error: OSError" ELSE ""]

\* navigate(index)
Navigate(d, path, contents, index) ==
    LET item == ListItem(contents, index)
    IN  IF item = <<>>
        THEN [current_path |-> path, contents |-> contents, listing |-> FALSE,
              report |-> "Navigation error: IndexError"]
        ELSE IF IsDir(d, Join(path, item[1]))
             THEN LET s == SetCurrentPath(d, Join(path, item[1]), contents)
                  IN  [current_path |-> s.current_path, contents |-> s.contents,
                       listing |-> ~s.raised,
                       report |-> IF s.raised THEN "Navigation error: OSError" ELSE ""]
             ELSE [current_path |-> path, contents |-> contents, listing |-> FALSE,
                   report |-> "Cannot open file"]

\* go_to_parent_directory() raising when there is no directory above
GoToParentDirectoryRaisingAtRoot(d, path, contents) ==
    LET s == SetCurrentPath(d, Dirname(path), contents)
    IN  IF path = Root
        THEN [current_path |-> path, contents |-> contents, listing |-> FALSE,
              report |-> "An error occurred"]
        ELSE [current_path |-> s.current_path, contents |-> s.contents,
              listing |-> ~s.raised,
              report |-> IF s.raised THEN "An error occurred" ELSE ""]

\* go_to_parent_directory(): an error of the listing leaves the method
GoToParentDirectory(d, path, contents) ==
    LET s == SetCurrentPath(d, Dirname(path), contents)
    IN  [current_path |-> s.current_path, contents |-> s.contents,
         listing |-> ~s.raised,
         report |-> IF s.raised THEN "An error occurred" ELSE ""]

\* subset(indices) without the lower bound of the range test, so that a negative
\* index counts from the end of the listing as it does in navigate
RECURSIVE SubsetCountingFromEnd(_, _, _)
SubsetCountingFromEnd(indices, path, contents) ==
    IF indices = <<>> THEN <<>>
    ELSE LET item == ListItem(contents, Head(indices))
         IN  (IF item # <<>> THEN << Join(path, item[1]) >> ELSE <<>>)
             \o SubsetCountingFromEnd(Tail(indices), path, contents)

\* subset(indices)
RECURSIVE Subset(_, _, _)
Subset(indices, path, contents) ==
    IF indices = <<>> THEN <<>>
    ELSE LET index == Head(indices)
         IN  (IF 0 <= index /\ index < Len(contents)
              THEN << Join(path, contents[index + 1]) >>
              ELSE <<>>) \o Subset(Tail(indices), path, contents)

-----------------------------------------------------------------------------
(* FileSelector *)

\* select_files_by_indices applying the indices parsed before the token that
\* int() rejects
SelectFilesByIndicesUpToError(tokens, selection, path, contents) ==
    LET parsed == SelectSeq(tokens, LAMBDA t : t # <<>>)
        chosen == Subset([i \in 1..Len(parsed) |-> parsed[i][1]], path, contents)
    IN  IF \E i \in 1..Len(tokens) : tokens[i] = <<>>
        THEN [selected_files |-> chosen, ret |-> <<>>, report |-> "Invalid input"]
        ELSE [selected_files |-> chosen, ret |-> chosen, report |-> ""]

\* select_files_by_indices clearing the selection when int() rejects a token
SelectFilesByIndicesClearing(tokens, selection, path, contents) ==
    IF \E i \in 1..Len(tokens) : tokens[i] = <<>>
    THEN [selected_files |-> <<>>, ret |-> <<>>, report |-> "Invalid input"]
    ELSE LET chosen == Subset([i \in 1..Len(tokens) |-> tokens[i][1]], path, contents)
         IN  [selected_files |-> chosen, ret |-> chosen, report |-> ""]

\* select_files_by_indices, given the tokens of the line as int() parsed them
SelectFilesByIndices(tokens, selection, path, contents) ==
    IF \E i \in 1..Len(tokens) : tokens[i] = <<>>
    THEN [selected_files |-> selection, ret |-> <<>>, report |-> "Invalid input"]
    ELSE LET chosen == Subset([i \in 1..Len(tokens) |-> tokens[i][1]], path, contents)
         IN  [selected_files |-> chosen, ret |-> chosen, report |-> ""]

\* get_and_reset() without the clear
GetAndResetKeeping(selection) == [res |-> selection, selected_files |-> selection]

\* get_and_reset()
GetAndReset(selection) == [res |-> selection, selected_files |-> <<>>]

-----------------------------------------------------------------------------
(* The gateway.  Every result is [raised, disk]: whether the call raised and *)
(* the disk it left.  os_error: the operating system fails the primitive the *)
(* call invokes (no permission, a full disk), which then changes nothing.    *)

\* shutil.copy2(src, dest)
Copy2(d, src, dest, os_error) ==
    LET dst == IF IsDir(d, dest) THEN Join(dest, Basename(src)) ELSE dest
    IN  IF \/ os_error
           \/ dest = EmptyPath
           \/ IsDir(d, src)
           \/ dst = src
           \/ IsDir(d, dst)
           \/ ~IsDir(d, Dirname(dst))
        THEN [raised |-> TRUE, disk |-> d]
        ELSE [raised |-> FALSE, disk |-> d \cup {[p |-> dst, k |-> "f"]}]

\* shutil.move(src, dest)
ShutilMove(d, src, dest, os_error) ==
    LET real_dst == IF IsDir(d, dest) THEN Join(dest, Basename(src)) ELSE dest
        moved    == { e \in d : IsPrefix(src, e.p) }
    IN  IF os_error \/ dest = EmptyPath
        THEN [raised |-> TRUE, disk |-> d]
        ELSE IF dest = src
        THEN [raised |-> FALSE, disk |-> d]
        ELSE IF \/ IsDir(d, dest) /\ Exists(d, real_dst)
                \/ IsPrefix(src, real_dst)
                \/ IsDir(d, src) /\ IsFile(d, real_dst)
                \/ ~IsDir(d, Dirname(real_dst))
        THEN [raised |-> TRUE, disk |-> d]
        ELSE [raised |-> FALSE,
              disk |-> (RemoveTree(d, real_dst) \ moved) \cup
                       { [p |-> real_dst \o SubSeq(e.p, Len(src) + 1, Len(e.p)),
                          k |-> e.k] : e \in moved }]

\* StdFileSystem.copy
StdCopy(d, src, dest, os_error) ==
    IF Exists(d, src) THEN Copy2(d, src, dest, os_error)
    ELSE [raised |-> FALSE, disk |-> d]

\* StdFileSystem.move
StdMove(d, src, dest, os_error) ==
    IF Exists(d, src) THEN ShutilMove(d, src, dest, os_error)
    ELSE [raised |-> FALSE, disk |-> d]

\* StdFileSystem.delete
StdDelete(d, path, os_error) ==
    IF IsFile(d, path)
    THEN IF os_error THEN [raised |-> TRUE, disk |-> d]
         ELSE [raised |-> FALSE, disk |-> d \ {[p |-> path, k |-> "f"]}]
    ELSE IF IsDir(d, path)
    THEN IF os_error \/ path \in Denied THEN [raised |-> TRUE, disk |-> d]
         ELSE [raised |-> FALSE, disk |-> RemoveTree(d, path)]
    ELSE [raised |-> FALSE, disk |-> d]

\* What a FileManager is built with, <<fs, ui>>.  main_menu passes the instances
\* StdFileSystem() and ConsoleUI().  Their methods declare (src, dest), (path)
\* and (msg) and no self, so a call through an instance passes one argument too
\* many and raises TypeError before the body runs.  The other wiring is the same
\* two classes called with the arguments their methods declare.
Wirings == { <<"StdFileSystem()", "ConsoleUI()">>, <<"StdFileSystem", "ConsoleUI">> }

\* action(file, destination) of _process_files, for the action of each title
GatewayCall(gateway, title, d, file, destination, os_error) ==
    IF gateway = "StdFileSystem()" THEN [raised |-> TRUE, disk |-> d]
    ELSE IF title = "Copy" THEN StdCopy(d, file, destination, os_error)
    ELSE IF title = "Move" THEN StdMove(d, file, destination, os_error)
    ELSE StdDelete(d, file, os_error)

-----------------------------------------------------------------------------
(* FileManager *)

\* The loop of _process_files from item i on: [disk, raised_at], raised_at the
\* position of the item whose call raised and ended the loop (0: none did).
\* fail_at: the position of the item whose primitive the operating system fails.
RECURSIVE ForEachFile(_, _, _, _, _, _, _)
ForEachFile(gateway, title, files, destination, d, i, fail_at) ==
    IF i > Len(files) THEN [disk |-> d, raised_at |-> 0]
    ELSE LET r == GatewayCall(gateway, title, d, files[i], destination, i = fail_at)
         IN  IF r.raised THEN [disk |-> r.disk, raised_at |-> i]
             ELSE ForEachFile(gateway, title, files, destination, r.disk, i + 1, fail_at)

\* the loop with a handler around each call: every item is handed to the gateway,
\* raised_at is the first one whose call raised
RECURSIVE ForEachFileGuarded(_, _, _, _, _, _, _)
ForEachFileGuarded(gateway, title, files, destination, d, i, fail_at) ==
    IF i > Len(files) THEN [disk |-> d, raised_at |-> 0]
    ELSE LET r    == GatewayCall(gateway, title, d, files[i], destination, i = fail_at)
             rest == ForEachFileGuarded(gateway, title, files, destination, r.disk,
                                        i + 1, fail_at)
         IN  [disk |-> rest.disk,
              raised_at |-> IF r.raised THEN i ELSE rest.raised_at]

\* _process_files with the handler inside the loop
ProcessFilesGuardingEach(gateway, reporter, title, selection, destination, d, fail_at) ==
    LET got  == GetAndReset(selection)
        loop == ForEachFileGuarded(gateway, title, got.res, destination, d, 1, fail_at)
    IN  [selected_files |-> got.selected_files, disk |-> loop.disk,
         consumed |-> got.res, handed |-> got.res, raised_at |-> loop.raised_at,
         ret |-> IF loop.raised_at > 0 /\ reporter = "ConsoleUI()" THEN <<>>
                 ELSE << Len(got.res) >>,
         report |-> IF loop.raised_at > 0 THEN title ELSE ""]

\* _process_files returning, after a failure, the number of items done before it
ProcessFilesCountingDone(gateway, reporter, title, selection, destination, d, fail_at) ==
    LET got  == GetAndReset(selection)
        loop == ForEachFile(gateway, title, got.res, destination, d, 1, fail_at)
    IN  IF loop.raised_at = 0
        THEN [selected_files |-> got.selected_files, disk |-> loop.disk,
              consumed |-> got.res, handed |-> got.res, raised_at |-> 0,
              ret |-> << Len(got.res) >>, report |-> ""]
        ELSE [selected_files |-> got.selected_files, disk |-> loop.disk,
              consumed |-> got.res, handed |-> SubSeq(got.res, 1, loop.raised_at),
              raised_at |-> loop.raised_at,
              ret |-> IF reporter = "ConsoleUI()" THEN <<>>
                      ELSE << loop.raised_at - 1 >>,
              report |-> title]

\* _process_files: [selected_files, disk, consumed, handed, raised_at, ret, report].
\* ret is <<count>>, or <<>> when self.ui.error raised and the call returned
\* nothing; report is the title given to self.ui.error ("" when none was).
ProcessFiles(gateway, reporter, title, selection, destination, d, fail_at) ==
    LET got  == GetAndReset(selection)
        loop == ForEachFile(gateway, title, got.res, destination, d, 1, fail_at)
    IN  IF loop.raised_at = 0
        THEN [selected_files |-> got.selected_files, disk |-> loop.disk,
              consumed |-> got.res, handed |-> got.res, raised_at |-> 0,
              ret |-> << Len(got.res) >>, report |-> ""]
        ELSE [selected_files |-> got.selected_files, disk |-> loop.disk,
              consumed |-> got.res, handed |-> SubSeq(got.res, 1, loop.raised_at),
              raised_at |-> loop.raised_at,
              ret |-> IF reporter = "ConsoleUI()" THEN <<>> ELSE << 0 >>,
              report |-> title]

-----------------------------------------------------------------------------
(* main_menu: one action per menu choice *)

\* the destinations typed at the copy and move prompts
Destinations == {<<"h", "u", "sub">>, EmptyPath}

\* main_menu up to the loop.  FileExplorer() lists the home directory outside
\* every handler: when the listing raises, main_menu ends with the exception and
\* the loop is never entered.
Init ==
    /\ disk \in InitialDisks
    /\ LET s == SetCurrentPath(disk, Home, <<>>)
       IN  /\ current_path = s.current_path
           /\ current_directory_contents = s.contents
           /\ running = ~s.raised
           /\ last = PlainStep("start", IF s.raised THEN "Traceback" ELSE "")
           /\ listed_path = IF s.raised THEN Root ELSE Home
    /\ selected_files = <<>>
    /\ \E w \in Wirings : fs = w[1] /\ ui = w[2]
    /\ selected_from = Root

\* choice 1
DisplayDirectory ==
    /\ running
    /\ last' = PlainStep("display", "")
    /\ UNCHANGED <<current_path, current_directory_contents, selected_files, disk,
                   fs, ui, running, listed_path, selected_from>>

\* the browser after a navigation step whose result is r
Browse(r) ==
    /\ current_path' = r.current_path
    /\ current_directory_contents' = r.contents
    /\ listed_path' = IF r.listing THEN r.current_path ELSE listed_path

\* choice 2 with a browser that drops the selection when it enters a directory
NavigateChoiceDroppingSelection ==
    /\ running
    /\ \E index \in ParsedInts :
         IF index = <<>>
         THEN /\ last' = Step("navigate", index, <<>>, <<>>, 0, <<>>, "An error occurred")
              /\ UNCHANGED <<current_path, current_directory_contents, listed_path,
                             selected_files, selected_from>>
         ELSE LET r == Navigate(disk, current_path, current_directory_contents,
                                index[1])
              IN  /\ Browse(r)
                  /\ last' = Step("navigate", index, <<>>, <<>>, 0, <<>>, r.report)
                  /\ selected_files' = IF r.listing THEN <<>> ELSE selected_files
                  /\ selected_from' = IF r.listing THEN Root ELSE selected_from
    /\ UNCHANGED <<disk, fs, ui, running>>

\* choice 2: int(input(...)) raises ValueError into the loop's handler
NavigateChoice ==
    /\ running
    /\ \E index \in ParsedInts :
         IF index = <<>>
         THEN /\ last' = Step("navigate", index, <<>>, <<>>, 0, <<>>, "An error occurred")
              /\ UNCHANGED <<current_path, current_directory_contents, listed_path>>
         ELSE LET r == Navigate(disk, current_path, current_directory_contents,
                                index[1])
              IN  /\ Browse(r)
                  /\ last' = Step("navigate", index, <<>>, <<>>, 0, <<>>, r.report)
    /\ UNCHANGED <<selected_files, disk, fs, ui, running, selected_from>>

\* choice 3
ParentChoice ==
    /\ running
    /\ LET r == GoToParentDirectory(disk, current_path, current_directory_contents)
       IN  /\ Browse(r)
           /\ last' = PlainStep("parent", r.report)
    /\ UNCHANGED <<selected_files, disk, fs, ui, running, selected_from>>

\* choice 4
SelectChoice ==
    /\ running
    /\ \E tokens \in ParsedIndexLists :
         LET r == SelectFilesByIndices(tokens, selected_files, current_path,
                                       current_directory_contents)
         IN  /\ selected_files' = r.selected_files
             /\ selected_from' = IF r.selected_files = <<>> THEN Root
                                 ELSE IF r.report = "" THEN listed_path
                                 ELSE selected_from
             /\ last' = Step("select", tokens, <<>>, <<>>, 0, <<r.ret>>, r.report)
    /\ UNCHANGED <<current_path, current_directory_contents, disk, fs, ui, running,
                   listed_path>>

\* choices 5, 6 and 7 with a browser that lists its directory again after the
\* action
BulkChoiceRefreshing(title, destination) ==
    /\ running
    /\ \E fail_at \in 0..Len(selected_files) :
         LET r == ProcessFiles(fs, ui, title, selected_files, destination, disk,
                               fail_at)
             l == ListDir(r.disk, current_path)
         IN  /\ selected_files' = r.selected_files
             /\ selected_from' = IF r.selected_files = <<>> THEN Root
                                 ELSE selected_from
             /\ disk' = r.disk
             /\ current_directory_contents' =
                    IF l.ok THEN l.names ELSE current_directory_contents
             /\ listed_path' = IF l.ok THEN current_path ELSE listed_path
             /\ last' = Step(title, destination, r.consumed, r.handed, r.raised_at,
                             r.ret,
                             IF r.ret = <<>> THEN "An error occurred" ELSE r.report)
    /\ UNCHANGED <<current_path, fs, ui, running>>

\* choices 5, 6 and 7: copy_files, move_files, delete_files
BulkChoice(title, destination) ==
    /\ running
    /\ \E fail_at \in 0..Len(selected_files) :
         LET r == ProcessFiles(fs, ui, title, selected_files, destination, disk,
                               fail_at)
         IN  /\ selected_files' = r.selected_files
             /\ selected_from' = IF r.selected_files = <<>> THEN Root
                                 ELSE selected_from
             /\ disk' = r.disk
             /\ last' = Step(title, destination, r.consumed, r.handed, r.raised_at,
                             r.ret,
                             IF r.ret = <<>> THEN "An error occurred" ELSE r.report)
    /\ UNCHANGED <<current_path, current_directory_contents, fs, ui, running,
                   listed_path>>

CopyChoice == \E destination \in Destinations : BulkChoice("Copy", destination)

MoveChoice == \E destination \in Destinations : BulkChoice("Move", destination)

DeleteChoice == BulkChoice("Delete", <<>>)

\* choice 8
Quit ==
    /\ running
    /\ running' = FALSE
    /\ last' = PlainStep("quit", "")
    /\ UNCHANGED <<current_path, current_directory_contents, selected_files, disk,
                   fs, ui, listed_path, selected_from>>

\* Another process removes an entry below the home directory while the menu
\* waits for input.
ExternalRemove ==
    /\ running
    /\ \E e \in disk :
         /\ IsPrefix(Home, e.p) /\ e.p # Home
         /\ disk' = RemoveTree(disk, e.p)
    /\ last' = PlainStep("external", "")
    /\ UNCHANGED <<current_path, current_directory_contents, selected_files, fs, ui,
                   running, listed_path, selected_from>>

\* any other choice
InvalidChoice ==
    /\ running
    /\ last' = PlainStep("invalid", "Invalid choice")
    /\ UNCHANGED <<current_path, current_directory_contents, selected_files, disk,
                   fs, ui, running, listed_path, selected_from>>

Next ==
    \/ DisplayDirectory
    \/ NavigateChoice
    \/ ParentChoice
    \/ SelectChoice
    \/ CopyChoice
    \/ MoveChoice
    \/ DeleteChoice
    \/ Quit
    \/ InvalidChoice
    \/ ExternalRemove

Spec == Init /\ [][Next]_vars

-----------------------------------------------------------------------------
(* Properties *)

IsBulk(op) == op \in {"Copy", "Move", "Delete"}

\* the disk after the gateway was called on each of files in turn and no call
\* raised
RECURSIVE EffectOf(_, _, _, _, _)
EffectOf(gateway, title, files, destination, d) ==
    IF files = <<>> THEN d
    ELSE EffectOf(gateway, title, Tail(files), destination,
                  GatewayCall(gateway, title, d, Head(files), destination, FALSE).disk)

\* the effects of the items before the one whose call raised are all there
NotRolledBack ==
    disk' = EffectOf(fs, last'.op,
                     SubSeq(selected_files, 1, last'.raised_at - 1), last'.arg, disk)

C2_SelectionDrained ==
    [][ /\ IsBulk(last'.op) => selected_files' = <<>>
        /\ (selected_files = <<>> /\ last'.op # "select") => selected_files' = <<>>
        /\ (IsBulk(last'.op) /\ IsBulk(last.op))
             => /\ last'.handed = <<>>
                /\ last'.ret = << 0 >>
                /\ disk' = disk ]_vars

\* a batch of two items ended by a failure, and the selection is empty
C2_Witness ==
    /\ IsBulk(last.op)
    /\ last.raised_at > 0
    /\ Len(last.consumed) = 2
    /\ selected_files = <<>>

C4_ContentsOfCurrentPath == listed_path = current_path

\* a navigation step whose listing of the target directory failed
ListingFailed(step) ==
    \/ step.op = "navigate" /\ step.report = "Navigation error: OSError"
    \/ step.op = "parent" /\ step.report = "An error occurred"

\* C5, as claimed: a descend or ascend whose listing of the target fails is
\* reported and leaves current_path and current_directory_contents as they were.
C5_FailedListingKeepsState ==
    [][ ListingFailed(last')
          => /\ current_path' = current_path
             /\ current_directory_contents' = current_directory_contents ]_vars

\* C6, as claimed: navigate(index) with index outside [0, len(contents)) reports
\* an index out of range and changes nothing; the directory changes only for an
\* index in range whose entry is a directory.
C6_OutOfRangeIndexRejected ==
    [][ (last'.op = "navigate" /\ last'.arg # <<>>) =>
          LET index == last'.arg[1]
              n     == Len(current_directory_contents)
          IN  /\ ~(0 <= index /\ index < n)
                   => /\ last'.report = "Navigation error: IndexError"
                      /\ current_path' = current_path
                      /\ current_directory_contents' = current_directory_contents
              /\ current_path' # current_path
                   => /\ 0 <= index /\ index < n
                      /\ IsDir(disk, Join(current_path,
                                          current_directory_contents[index + 1]))
      ]_vars

\* the paths of the entries at the indices of tokens that lie in range, in order
SelectionFor(tokens, path, contents) ==
    LET in_range == SelectSeq(tokens, LAMBDA t : t[1] \in 0..(Len(contents) - 1))
    IN  [i \in 1..Len(in_range) |-> Join(path, contents[in_range[i][1] + 1])]

\* C7: after a select whose tokens are all integers, the selection is the paths
\* join(current_path, contents[t]) of the tokens t in [0, len(contents)), in input
\* order and with repeats, whatever was selected before.
C7_SelectionIsSubsetInInputOrder ==
    (last.op = "select" /\ last.report = "")
        => /\ selected_files = SelectionFor(last.arg, current_path,
                                            current_directory_contents)
           /\ last.ret = << selected_files >>

\* a select of "1,0": two entries, in input order and not in listing order
C7_Witness ==
    /\ last.op = "select" /\ last.report = ""
    /\ last.arg = << <<1>>, <<0>> >>
    /\ Len(selected_files) = 2
    /\ selected_files[1] # selected_files[2]

\* C8: a select with a token that is not an integer leaves the selection as it
\* was before the call.
C8_RejectedSelectKeepsSelection ==
    [][ (last'.op = "select" /\ last'.report = "Invalid input")
          => selected_files' = selected_files ]_vars

\* a rejected select whose first token was an index in range
C8_Witness ==
    /\ last.op = "select" /\ last.report = "Invalid input"
    /\ Len(last.arg) = 2
    /\ last.arg[1] = <<0>>
    /\ current_directory_contents # <<>>

\* C9, as claimed: after a select that is rejected for a token that is not an
\* integer, the selection is empty.
C9_RejectedSelectEmpties ==
    (last.op = "select" /\ last.report = "Invalid input") => selected_files = <<>>

\* C9, amended: a select that is rejected for a token that is not an integer
\* returns an empty list, and the selection is empty after it only if it was
\* empty before it.
C9_RejectedSelectReturnsEmpty ==
    [][ (last'.op = "select" /\ last'.report = "Invalid input")
          => /\ last'.ret = << <<>> >>
             /\ (selected_files' = <<>>) <=> (selected_files = <<>>) ]_vars

\* a rejected select with two paths still selected
C9_Witness ==
    /\ last.op = "select" /\ last.report = "Invalid input"
    /\ Len(selected_files) = 2

\* C10, as claimed: every selected path is join(P, c) for a directory P and a
\* name c of a listing taken of P, never the path of one directory joined with a
\* name of the listing of another.
C10_SelectedFromOwnListing ==
    \A i \in 1..Len(selected_files) :
        /\ selected_files[i] # Root
        /\ Dirname(selected_files[i]) = selected_from

\* C11, as claimed: the session ends only through choice 8; no failure, the
\* failed listing of the home directory at start-up included, ends it.
C11_OnlyQuitTerminates == ~running => last.op = "quit"

\* C12: navigate(index) with index in [0, len(contents)) whose entry is a regular
\* file reports that the file cannot be opened, raises nothing, and leaves
\* current_path, current_directory_contents and the selection as they were.
C12_FileIsNotEntered ==
    [][ (/\ last'.op = "navigate" /\ last'.arg # <<>>
         /\ last'.arg[1] \in 0..(Len(current_directory_contents) - 1)
         /\ IsFile(disk, Join(current_path,
                              current_directory_contents[last'.arg[1] + 1])))
          => /\ last'.report = "Cannot open file"
             /\ current_path' = current_path
             /\ current_directory_contents' = current_directory_contents
             /\ selected_files' = selected_files ]_vars

\* navigate(0) on the file 'a' of the home directory, with a path selected
C12_Witness ==
    /\ last.op = "navigate" /\ last.arg = << 0 >>
    /\ last.report = "Cannot open file"
    /\ current_directory_contents # <<>>
    /\ IsFile(disk, Join(current_path, current_directory_contents[1]))
    /\ selected_files # <<>>

\* C13, as claimed: a delete removes every selected path that is a file or a
\* directory, with all that lies below it, skips a path that is neither without
\* an error, and touches no other entry; a delete of the empty selection changes
\* nothing and returns 0.
C13_DeleteRemovesSelection ==
    [][ last'.op = "Delete"
          => /\ disk' = { e \in disk : \A i \in 1..Len(selected_files) :
                                          ~IsPrefix(selected_files[i], e.p) }
             /\ (\A i \in 1..Len(selected_files) : ~Exists(disk, selected_files[i]))
                  => last'.report = ""
             /\ selected_files = <<>> => last'.ret = << 0 >> ]_vars

\* C14, as claimed: in a copy or move, a selected path that is not on the disk
\* when its turn comes is skipped silently: the call on it does not raise and the
\* batch goes on; when none of the selected paths is on the disk, nothing is
\* reported, every item is passed over and the disk is as it was.
C14_RemovedItemSkipped ==
    [][ last'.op \in {"Copy", "Move"}
          => /\ \A i \in 1..Len(selected_files) :
                  (/\ last'.raised_at \in {0} \cup i..Len(selected_files)
                   /\ ~Exists(EffectOf(fs, last'.op, SubSeq(selected_files, 1, i - 1),
                                       last'.arg, disk),
                              selected_files[i]))
                    => last'.raised_at # i
             /\ (\A j \in 1..Len(selected_files) : ~Exists(disk, selected_files[j]))
                  => /\ last'.report = ""
                     /\ last'.handed = selected_files
                     /\ disk' = disk ]_vars

\* C15: the selection changes only in a select or in a copy, move or delete;
\* display, navigate (entered or not), parent and an invalid choice leave it as
\* it was, and the next copy, move or delete consumes exactly the paths selected,
\* wherever the browser has gone in between.
C15_SelectionFrame ==
    [][ /\ last'.op \notin {"select", "Copy", "Move", "Delete"}
             => selected_files' = selected_files
        /\ IsBulk(last'.op) => last'.consumed = selected_files ]_vars

\* a delete that consumed a path selected in the directory above the one the
\* browser had entered since
C15_Witness ==
    /\ last.op = "Delete"
    /\ Len(last.consumed) = 1
    /\ listed_path = current_path
    /\ Dirname(last.consumed[1]) # current_path
    /\ Dirname(last.consumed[1]) = Dirname(current_path)
    /\ ~Exists(disk, last.consumed[1])

C17_ParentAtRootIsNoOp ==
    [][ last'.op = "parent"
          => /\ current_path' = Dirname(current_path)
             /\ current_path = Root
                  => /\ current_path' = Root
                     /\ last'.report = ""
                     /\ listed_path' = Root
                     /\ selected_files' = selected_files
                     /\ running' ]_vars

\* parent with the browser at the root and the root's entry 'h' selected, which
\* only a select made at the root gives
C17_Witness ==
    /\ last.op = "parent" /\ last.report = ""
    /\ current_path = Root
    /\ selected_files = << <<"h">> >>
    /\ running

====
